---------------------------- MODULE Spec2Model ----------------------------
(***************************************************************************)
(* Lotto 6/49 ticket generator: the portable variant                       *)
(* (src/lotto649_portable.c: xorshift128+ engine, Fisher-Yates sampler,    *)
(* multiplicative ticket hash, "seen" table, run driver) and the simple    *)
(* variant (src/lotto649.c: generate_ticket over rand()).                  *)
(*                                                                         *)
(* A uint64_t is a tuple of 8 bytes, least significant first, so that all  *)
(* 64-bit arithmetic wraps modulo 2^64 exactly as in C.                    *)
(***************************************************************************)
EXTENDS Integers, Sequences, FiniteSets

(***************************************************************************)
(* 64-bit unsigned arithmetic on byte tuples                               *)
(***************************************************************************)
Byte == 0..255

Word64 == [1..8 -> Byte]

Zero64 == <<0, 0, 0, 0, 0, 0, 0, 0>>

\* (uint64_t)v for a small non-negative int v (v < 2^16)
U64(v) == <<v % 256, (v \div 256) % 256, 0, 0, 0, 0, 0, 0>>

Pow2(k) == 2 ^ k

\* x ^ y and x & y on nibbles, bit by bit
XorNib(x, y) ==
    ((x + y) % 2)
  + 2 * (((x \div 2) + (y \div 2)) % 2)
  + 4 * (((x \div 4) + (y \div 4)) % 2)
  + 8 * (((x \div 8) + (y \div 8)) % 2)

AndNib(x, y) ==
    ((x % 2) * (y % 2))
  + 2 * (((x \div 2) % 2) * ((y \div 2) % 2))
  + 4 * (((x \div 4) % 2) * ((y \div 4) % 2))
  + 8 * (((x \div 8) % 2) * ((y \div 8) % 2))

\* the same on bytes, tabulated once (entry [x + 1][y + 1])
XorTable ==
  SubSeq([x \in 1..256 |->
            SubSeq([y \in 1..256 |->
                      16 * XorNib((x - 1) \div 16, (y - 1) \div 16)
                      + XorNib((x - 1) % 16, (y - 1) % 16)], 1, 256)],
         1, 256)

AndTable ==
  SubSeq([x \in 1..256 |->
            SubSeq([y \in 1..256 |->
                      16 * AndNib((x - 1) \div 16, (y - 1) \div 16)
                      + AndNib((x - 1) % 16, (y - 1) % 16)], 1, 256)],
         1, 256)

Xor8(x, y) == XorTable[x + 1][y + 1]

And8(x, y) == AndTable[x + 1][y + 1]

\* a ^ b
Xor64(a, b) ==
  << Xor8(a[1], b[1]), Xor8(a[2], b[2]), Xor8(a[3], b[3]), Xor8(a[4], b[4]),
     Xor8(a[5], b[5]), Xor8(a[6], b[6]), Xor8(a[7], b[7]), Xor8(a[8], b[8]) >>

ByteAt(a, i) == IF i >= 1 /\ i <= 8 THEN a[i] ELSE 0

\* byte i of a << k
ShlByte(a, k, i) ==
  LET q == k \div 8
      r == k % 8
  IN  ((ByteAt(a, i - q) * Pow2(r)) % 256)
      + (ByteAt(a, i - q - 1) \div Pow2(8 - r))

\* a << k, 0 <= k < 64
Shl64(a, k) ==
  << ShlByte(a, k, 1), ShlByte(a, k, 2), ShlByte(a, k, 3), ShlByte(a, k, 4),
     ShlByte(a, k, 5), ShlByte(a, k, 6), ShlByte(a, k, 7), ShlByte(a, k, 8) >>

\* byte i of a >> k
ShrByte(a, k, i) ==
  LET q == k \div 8
      r == k % 8
  IN  (ByteAt(a, i + q) \div Pow2(r))
      + ((ByteAt(a, i + q + 1) * Pow2(8 - r)) % 256)

\* a >> k, 0 <= k < 64
Shr64(a, k) ==
  << ShrByte(a, k, 1), ShrByte(a, k, 2), ShrByte(a, k, 3), ShrByte(a, k, 4),
     ShrByte(a, k, 5), ShrByte(a, k, 6), ShrByte(a, k, 7), ShrByte(a, k, 8) >>

RECURSIVE AddFrom(_, _, _, _)
AddFrom(a, b, i, carry) ==
  IF i > 8 THEN <<>>
  ELSE LET s == a[i] + b[i] + carry
       IN  <<s % 256>> \o AddFrom(a, b, i + 1, s \div 256)

\* a + b modulo 2^64
Add64(a, b) == AddFrom(a, b, 1, 0)

RECURSIVE ColSum(_, _, _, _)
\* sum of a[i] * b[k + 1 - i] for i in from..k
ColSum(a, b, k, from) ==
  IF from > k THEN 0
  ELSE a[from] * b[k + 1 - from] + ColSum(a, b, k, from + 1)

RECURSIVE MulFrom(_, _, _, _)
MulFrom(a, b, k, carry) ==
  IF k > 8 THEN <<>>
  ELSE LET s == ColSum(a, b, k, 1) + carry
       IN  <<s % 256>> \o MulFrom(a, b, k + 1, s \div 256)

\* a * b modulo 2^64
Mul64(a, b) == MulFrom(a, b, 1, 0)

RECURSIVE ModFrom(_, _, _, _)
ModFrom(a, m, i, rem) ==
  IF i < 1 THEN rem
  ELSE ModFrom(a, m, i - 1, (rem * 256 + a[i]) % m)

\* a % m for a small positive int m, as an int
Mod64(a, m) == ModFrom(a, m, 8, 0)

\* the low 16 bits of a, as an int
Low16(a) == a[1] + 256 * a[2]

\* x & y for ints 0 <= x, y < 2^16
And16(x, y) ==
  And8(x % 256, y % 256) + 256 * And8(x \div 256, y \div 256)

(***************************************************************************)
(* Program constants                                                       *)
(***************************************************************************)
\* 0x9e3779b97f4a7c15
GOLDEN == <<21, 124, 74, 127, 185, 121, 55, 158>>

\* 0x517cc1b727220a95
HASH_INIT == <<149, 10, 34, 39, 183, 193, 124, 81>>

\* static int pool[49]
POOL_SIZE == 49

\* int ticket[7]: 6 main + 1 bonus
TICKET_SIZE == 7

\* qsort(ticket, 6, ...)
MAIN_NUMBERS == 6

\* capacity = 1024
INITIAL_CAPACITY == 1024

\* long want = 5
DEFAULT_WANT == 5

\* the largest long of the build modelled (32-bit long, as with cl on Windows)
LONG_MAX == 2147483647

(***************************************************************************)
(* Xorshift128+                                                            *)
(***************************************************************************)
\* state[1] = x ^ y ^ (x >> 17) ^ (y >> 26), on the x already mixed with x << 23
XsWord(x, y) == Xor64(Xor64(Xor64(x, y), Shr64(x, 17)), Shr64(y, 26))

\* state[0] = y; state[1] = s1; return state[1] + y
XsResult(y, s1) == [state |-> <<y, s1>>, value |-> Add64(s1, y)]

\* One call: the new state[0..1] and the returned value.
xorshift128plus(st) ==
  XsResult(st[2], XsWord(Xor64(st[1], Shl64(st[1], 23)), st[2]))

\* state[0] = entropy; state[1] = entropy ^ 0x9e3779b97f4a7c15
\* seeding without the XOR of the second word (both words the same): an
\* engine C8_EngineDeterministic must tell from seed_rng
seed_rng_same(entropy) == <<entropy, entropy>>

seed_rng(entropy) == <<entropy, Xor64(entropy, GOLDEN)>>

(***************************************************************************)
(* Sorting helper and sampler                                              *)
(***************************************************************************)
cmp(a, b) == a - b

RECURSIVE InsertSorted(_, _)
\* v inserted into the cmp-ordered sequence s
InsertSorted(s, v) ==
  IF s = <<>> THEN <<v>>
  ELSE IF cmp(v, Head(s)) < 0 THEN <<v>> \o s
  ELSE <<Head(s)>> \o InsertSorted(Tail(s), v)

RECURSIVE InsertionSort(_)
InsertionSort(s) ==
  IF s = <<>> THEN <<>>
  ELSE InsertSorted(InsertionSort(Tail(s)), Head(s))

\* qsort(base, nmemb, sizeof(int), cmp): the first nmemb entries ordered by cmp
qsort(base, nmemb) ==
  InsertionSort(SubSeq(base, 1, nmemb)) \o SubSeq(base, nmemb + 1, Len(base))

\* pool[i] = i + 1
FreshPool == SubSeq([k \in 1..POOL_SIZE |-> k], 1, POOL_SIZE)

Swap(p, i, j) == [p EXCEPT ![i + 1] = p[j + 1], ![j + 1] = p[i + 1]]

\* j = r % (i + 1); t = pool[i]; pool[i] = pool[j]; pool[j] = t
SwapWith(acc, i, r) ==
  [pool |-> Swap(acc.pool, i, Mod64(r.value, i + 1)), state |-> r.state]

\* The loop body at index i, with r the value xorshift128plus() returns
ShuffleStep(acc, i) == SwapWith(acc, i, xorshift128plus(acc.state))

RECURSIVE ShuffleSteps(_, _, _)
\* The loop bodies for i = hi, hi - 1, ..., lo, in that order.  The range is
\* composed by halves and the accumulator is evaluated on entry (acc = acc),
\* which keeps the evaluation depth logarithmic in the loop count.
ShuffleSteps(acc, hi, lo) ==
  IF hi < lo \/ acc # acc THEN acc
  ELSE IF hi = lo THEN ShuffleStep(acc, hi)
  ELSE LET mid == (hi + lo) \div 2
       IN  ShuffleSteps(ShuffleSteps(acc, hi, mid + 1), mid, lo)

\* for (i = 48; i > 0; i--) { ... }
FisherYates(p, st) == ShuffleSteps([pool |-> p, state |-> st], POOL_SIZE - 1, 1)

\* a sort of all seven entries, which moves the bonus out of the seventh
\* slot: a ticket C2_TicketWellFormed must tell from TakeTicket's
TakeTicketSortAll(sh) ==
  [pool |-> sh.pool,
   ticket |-> qsort(SubSeq(sh.pool, 1, TICKET_SIZE), TICKET_SIZE),
   state |-> sh.state]

\* memcpy(ticket, pool, 7 * sizeof(int)); qsort(ticket, 6, sizeof(int), cmp)
TakeTicket(sh) ==
  [pool   |-> sh.pool,
   ticket |-> qsort(SubSeq(sh.pool, 1, TICKET_SIZE), MAIN_NUMBERS),
   state  |-> sh.state]

\* draw_one: the shuffled pool, the ticket copied from it, the engine state after
draw_one(st) == TakeTicket(FisherYates(FreshPool, st))

(***************************************************************************)
(* Ticket hash                                                             *)
(***************************************************************************)
RECURSIVE HashFrom(_, _, _)
HashFrom(h, t, i) ==
  IF i > TICKET_SIZE \/ h # h THEN h
  ELSE HashFrom(Mul64(Xor64(h, U64(t[i])), GOLDEN), t, i + 1)

\* a hash of the six main numbers alone: a fingerprint
\* C9_SensitiveToEachPosition must tell from hash_ticket's
hash_ticket_main(t) == HashFrom(HASH_INIT, [t EXCEPT ![TICKET_SIZE] = 0], 1)

hash_ticket(t) == HashFrom(HASH_INIT, t, 1)

(***************************************************************************)
(* The seen table                                                          *)
(***************************************************************************)
\* k zeroed uint64_t entries (calloc, memset)
Zeros(k) == SubSeq([i \in 1..k |-> Zero64], 1, k)

\* if (!seen) { capacity = 1024; seen = calloc(capacity, ...); }
Allocated(tbl, cap) ==
  IF tbl = <<>>
    THEN [seen |-> Zeros(INITIAL_CAPACITY), capacity |-> INITIAL_CAPACITY]
    ELSE [seen |-> tbl, capacity |-> cap]

\* if (index >= capacity) { capacity *= 2; realloc; memset the new half to 0 }
Grown(t, index) ==
  IF index >= t.capacity
    THEN [seen |-> t.seen \o Zeros(t.capacity), capacity |-> 2 * t.capacity]
    ELSE t

\* seen[index] = h
Stored(t, hv, index) ==
  [seen |-> [t.seen EXCEPT ![index + 1] = hv], capacity |-> t.capacity]

\* a remember that allocates a fresh table at every call and so drops what
\* was stored: a table C10_TableHoldsEmitted must tell from remember's
remember_fresh(tbl, cap, hv, index) ==
  Stored(Grown(Allocated(<<>>, 0), index), hv, index)

\* remember(h, index) on the table (tbl, cap): the table after the call
remember(tbl, cap, hv, index) ==
  Stored(Grown(Allocated(tbl, cap), index), hv, index)

\* One evaluation of the loop test and body of already_seen at slot acc.i:
\*   while (seen[i]) { if (seen[i] == h) return 1; i = (i + 1) & mask; } return 0;
ProbeStep(tbl, cap, hv, acc) ==
  IF acc.done THEN acc
  ELSE IF tbl[acc.i + 1] = Zero64 THEN [done |-> TRUE, ret |-> 0, i |-> acc.i]
  ELSE IF tbl[acc.i + 1] = hv THEN [done |-> TRUE, ret |-> 1, i |-> acc.i]
  ELSE [done |-> FALSE, ret |-> 0, i |-> And16(acc.i + 1, cap - 1)]

RECURSIVE ProbeSteps(_, _, _, _, _)
\* count consecutive evaluations of the loop (composed by halves)
ProbeSteps(tbl, cap, hv, acc, count) ==
  IF count <= 0 \/ acc.done THEN acc
  ELSE IF count = 1 THEN ProbeStep(tbl, cap, hv, acc)
  ELSE ProbeSteps(tbl, cap, hv,
                  ProbeSteps(tbl, cap, hv, acc, count \div 2),
                  count - (count \div 2))

\* already_seen(h) on the table (tbl, cap).  done = TRUE: the call returns ret.
\* done = FALSE: cap loop iterations went by without reaching a return; the
\* index then repeats a value it already had over an unchanged table, so the
\* loop never exits.
already_seen(tbl, cap, hv) ==
  IF tbl = <<>> THEN [done |-> TRUE, ret |-> 0, i |-> 0]
  ELSE ProbeSteps(tbl, cap, hv,
                  [done |-> FALSE, ret |-> 0, i |-> And16(Low16(hv), cap - 1)],
                  cap)

(***************************************************************************)
(* Argument parsing: strtol(argv[1], &end, 10)                             *)
(***************************************************************************)
DigitChars == <<"0", "1", "2", "3", "4", "5", "6", "7", "8", "9">>

IsDigit(c) == \E d \in 1..10 : DigitChars[d] = c

DigitVal(c) == (CHOOSE d \in 1..10 : DigitChars[d] = c) - 1

IsSpace(c) == c \in {" ", "\t", "\n"}

RECURSIVE SkipSpace(_, _)
\* the first index at or after p that holds no white space
SkipSpace(s, p) ==
  IF p <= Len(s) /\ IsSpace(s[p]) THEN SkipSpace(s, p + 1) ELSE p

RECURSIVE Accumulate(_, _, _)
\* the digits from p on, accumulated in base 10 and clamped at LONG_MAX
Accumulate(s, p, acc) ==
  IF p > Len(s) \/ ~IsDigit(s[p]) THEN [value |-> acc, end |-> p]
  ELSE IF acc > (LONG_MAX - DigitVal(s[p])) \div 10
         THEN Accumulate(s, p + 1, LONG_MAX)
         ELSE Accumulate(s, p + 1, acc * 10 + DigitVal(s[p]))

\* strtol(s, &end, 10): the value and the index end points at
\* (Len(s) + 1 is the terminating '\0'; 1 is the start: nothing was converted)
strtol(s) ==
  LET p == SkipSpace(s, 1)
      neg == p <= Len(s) /\ s[p] = "-"
      q == IF p <= Len(s) /\ s[p] \in {"+", "-"} THEN p + 1 ELSE p
      r == Accumulate(s, q, 0)
  IN  IF r.end = q THEN [value |-> 0, end |-> 1]
      ELSE [value |-> IF neg THEN 0 - r.value ELSE r.value, end |-> r.end]

\* long want = 5; if (argc >= 2) { n = strtol(...); if (*end == '\0' && n >= 1) want = n; }
ParseWant(ac, s) ==
  IF ac >= 2 /\ strtol(s).end = Len(s) + 1 /\ strtol(s).value >= 1
    THEN strtol(s).value
    ELSE DEFAULT_WANT

(***************************************************************************)
(* The simple variant: generate_ticket over rand()                         *)
(***************************************************************************)
\* #define NUMBERS_PER_TICKET 6
NUMBERS_PER_TICKET == 6

\* #define MAX_NUMBER 49
MAX_NUMBER == 49

\* rand() as the sample implementation of ISO C:
\*   next = next * 1103515245 + 12345; return (next / 65536) % 32768;
RAND_MUL == <<109, 78, 198, 65, 0, 0, 0, 0>>

RAND_INC == <<57, 48, 0, 0, 0, 0, 0, 0>>

RandValue(nx) == [next |-> nx, value |-> (nx[3] + 256 * nx[4]) % 32768]

rand(next) == RandValue(Add64(Mul64(next, RAND_MUL), RAND_INC))

\* numbers[i] = i + 1
FreshNumbers == SubSeq([k \in 1..MAX_NUMBER |-> k], 1, MAX_NUMBER)

\* j = r % (i + 1); temp = numbers[i]; numbers[i] = numbers[j]; numbers[j] = temp
RandSwapWith(acc, i, r) ==
  [numbers |-> Swap(acc.numbers, i, r.value % (i + 1)), next |-> r.next]

RandShuffleStep(acc, i) == RandSwapWith(acc, i, rand(acc.next))

RECURSIVE RandShuffleSteps(_, _, _)
\* the loop bodies for i = hi, hi - 1, ..., lo, in that order (by halves)
RandShuffleSteps(acc, hi, lo) ==
  IF hi < lo \/ acc # acc THEN acc
  ELSE IF hi = lo THEN RandShuffleStep(acc, hi)
  ELSE LET mid == (hi + lo) \div 2
       IN  RandShuffleSteps(RandShuffleSteps(acc, hi, mid + 1), mid, lo)

\* take the first 6 and sort them
TakeSix(sh) ==
  [numbers |-> sh.numbers,
   ticket  |-> qsort(SubSeq(sh.numbers, 1, NUMBERS_PER_TICKET), NUMBERS_PER_TICKET),
   next    |-> sh.next]

\* generate_ticket: the shuffled numbers, the ticket printed, rand's state after
generate_ticket(next) ==
  TakeSix(RandShuffleSteps([numbers |-> FreshNumbers, next |-> next],
                           MAX_NUMBER - 1, 1))

(***************************************************************************)
(* State                                                                   *)
(***************************************************************************)
VARIABLES
  argc,       \* main's argc (1: no argument, 2: one argument)
  argv1,      \* argv[1] as a sequence of characters
  entropy,    \* the value seed_rng gets from time(NULL) ^ (uintptr_t)&entropy
  state,      \* static uint64_t state[2]
  want,       \* long want
  n,          \* long n, the loop counter of main
  pool,       \* static int pool[49] (int numbers[49] in the simple variant)
  ticket,     \* int ticket[7] (int ticket[6] in the simple variant)
  h,          \* uint64_t h
  seen,       \* static uint64_t *seen; <<>> is NULL
  capacity,   \* static size_t capacity
  out,        \* the tickets printed so far, in order
  pc,         \* the position in the program
  exited,     \* main has returned
  rc,         \* main's return value, once it has returned
  engines,    \* two runs of the engine, side by side
  inserted,   \* the fingerprints given to remember, in order (Duplicate Guard)
  ticket2,    \* a second ticket, for the hash
  h2,         \* its hash
  rand_next   \* the state of rand() (simple variant)

vars ==
  << argc, argv1, entropy, state, want, n, pool, ticket, h, seen, capacity,
     out, pc, exited, rc, engines, inserted, ticket2, h2, rand_next >>

\* the state of a process before main runs: statics are zero, nothing printed
Blank ==
  /\ state = <<Zero64, Zero64>>
  /\ want = 0
  /\ n = 0
  /\ pool = [k \in 1..POOL_SIZE |-> 0]
  /\ ticket = [k \in 1..TICKET_SIZE |-> 0]
  /\ h = Zero64
  /\ seen = <<>>
  /\ capacity = 0
  /\ out = <<>>
  /\ exited = FALSE
  /\ rc = 0
  /\ engines = <<>>
  /\ inserted = <<>>
  /\ ticket2 = <<>>
  /\ h2 = Zero64
  /\ rand_next = Zero64

(***************************************************************************)
(* The run of the portable variant (main)                                  *)
(***************************************************************************)
\* values time(NULL) ^ (uintptr_t)&entropy takes: 0x7ffc0039defe,
\* 0x7ffc078efc06, 0x7ffc00000000
Seeds ==
  { <<254, 222, 57, 0, 252, 127, 0, 0>>,
    <<6, 252, 142, 7, 252, 127, 0, 0>>,
    <<0, 0, 0, 0, 252, 127, 0, 0>> }

NoArg == [argc |-> 1, argv1 |-> <<>>]

Arg(s) == [argc |-> 2, argv1 |-> s]

\* no argument, "", "0", "-3", "abc", "7x", "3", "+2", " 4", "33"
Args ==
  { NoArg, Arg(<<>>), Arg(<<"0">>), Arg(<<"-", "3">>), Arg(<<"a", "b", "c">>),
    Arg(<<"7", "x">>), Arg(<<"3">>), Arg(<<"+", "2">>), Arg(<<" ", "4">>),
    Arg(<<"3", "3">>) }

\* "1025", "2147483648"
LargeArgs ==
  { Arg(<<"1", "0", "2", "5">>),
    Arg(<<"2", "1", "4", "7", "4", "8", "3", "6", "4", "8">>) }

LargeSeed == <<254, 222, 57, 0, 252, 127, 0, 0>>

Start(e, a) ==
  /\ Blank
  /\ argc = a.argc
  /\ argv1 = a.argv1
  /\ entropy = e
  /\ pc = "seed_rng"

Init == \E e \in Seeds, a \in Args : Start(e, a)

InitLarge == Init \/ \E a \in LargeArgs : Start(LargeSeed, a)

\* seed_rng()
SeedRng ==
  /\ pc = "seed_rng"
  /\ state' = seed_rng(entropy)
  /\ pc' = "parse"
  /\ UNCHANGED << argc, argv1, entropy, want, n, pool, ticket, h, seen,
                  capacity, out, exited, rc, engines, inserted, ticket2, h2,
                  rand_next >>

\* parse ticket count; for (long n = 1; ...
ParseArgs ==
  /\ pc = "parse"
  /\ want' = ParseWant(argc, argv1)
  /\ n' = 1
  /\ pc' = "loop"
  /\ UNCHANGED << argc, argv1, entropy, state, pool, ticket, h, seen, capacity,
                  out, exited, rc, engines, inserted, ticket2, h2, rand_next >>

\* n <= want: enter the loop body
NextTicket ==
  /\ pc = "loop"
  /\ n <= want
  /\ pc' = "draw"
  /\ UNCHANGED << argc, argv1, entropy, state, want, n, pool, ticket, h, seen,
                  capacity, out, exited, rc, engines, inserted, ticket2, h2,
                  rand_next >>

\* do { draw_one(ticket); h = hash_ticket(ticket); ...
DrawCandidate ==
  /\ pc = "draw"
  /\ \E d \in {draw_one(state)} :
        /\ state' = d.state
        /\ pool' = d.pool
        /\ ticket' = d.ticket
        /\ h' = hash_ticket(d.ticket)
  /\ pc' = "check"
  /\ UNCHANGED << argc, argv1, entropy, want, n, seen, capacity, out,
                  exited, rc, engines, inserted, ticket2, h2, rand_next >>

\* ... } while (already_seen(h)): already_seen returned 1
Redraw ==
  /\ pc = "check"
  /\ \E r \in {already_seen(seen, capacity, h)} : r.done /\ r.ret = 1
  /\ pc' = "draw"
  /\ UNCHANGED << argc, argv1, entropy, state, want, n, pool, ticket, h, seen,
                  capacity, out, exited, rc, engines, inserted, ticket2, h2,
                  rand_next >>

\* already_seen returned 0: remember(h, n - 1); printf the ticket; n++
Accept ==
  /\ pc = "check"
  /\ \E r \in {already_seen(seen, capacity, h)} : r.done /\ r.ret = 0
  /\ \E t \in {remember(seen, capacity, h, n - 1)} :
        /\ seen' = t.seen
        /\ capacity' = t.capacity
  /\ out' = Append(out, [label |-> n,
                         main  |-> SubSeq(ticket, 1, MAIN_NUMBERS),
                         bonus |-> ticket[TICKET_SIZE]])
  /\ n' = n + 1
  /\ pc' = "loop"
  /\ UNCHANGED << argc, argv1, entropy, state, want, pool, ticket, h, exited,
                  rc, engines, inserted, ticket2, h2, rand_next >>

\* n > want: free(seen); return 0
Finish ==
  /\ pc = "loop"
  /\ n > want
  /\ seen' = <<>>
  /\ exited' = TRUE
  /\ rc' = 0
  /\ pc' = "done"
  /\ UNCHANGED << argc, argv1, entropy, state, want, n, pool, ticket, h,
                  capacity, out, engines, inserted, ticket2, h2, rand_next >>

Next ==
  \/ SeedRng
  \/ ParseArgs
  \/ NextTicket
  \/ DrawCandidate
  \/ Redraw
  \/ Accept
  \/ Finish

Spec == Init /\ [][Next]_vars

\* draw_one and hash_ticket always return: weak fairness of DrawCandidate,
\* which is enabled exactly when pc = "draw" and then leaves "draw"
DrawReturns == []<>(pc # "draw")

\* main goes on once already_seen has returned: weak fairness of
\* Redraw \/ Accept, enabled exactly when the probe loop exits
CheckGoesOn == []<>(~(pc = "check" /\ already_seen(seen, capacity, h).done))

\* The program is sequential: whenever it has a next step it takes it.
SpecLarge ==
  /\ InitLarge
  /\ [][Next]_vars
  /\ WF_vars(SeedRng)
  /\ WF_vars(ParseArgs)
  /\ WF_vars(NextTicket)
  /\ WF_vars(Finish)
  /\ DrawReturns
  /\ CheckGoesOn

(***************************************************************************)
(* Claims about the run                                                    *)
(***************************************************************************)
\* main is inside its ticket loop, the table allocated or still NULL
InLoop == pc \in {"loop", "draw", "check"}

SameTicket(a, b) == a.main = b.main /\ a.bonus = b.bonus

\* C1: no two tickets printed in one run have the same six main numbers
\* together with the same bonus number.
C1_NoTwoTicketsEqual ==
  \A i \in 1..Len(out) : \A j \in 1..Len(out) :
     i < j => ~SameTicket(out[i], out[j])

Fingerprint(o) == hash_ticket(o.main \o <<o.bonus>>)

\* the fingerprints passed to remember so far: those of the printed tickets
RecordedFps == { Fingerprint(out[k]) : k \in 1..Len(out) }

\* fingerprints that no ticket has: 1, 2, 1023, 2^56
NeverRecorded ==
  { U64(1), U64(2), U64(1023), <<0, 0, 0, 0, 0, 0, 0, 1>> }

Returns(r, v) == r.done /\ r.ret = v

\* C4: already_seen(fp) returns 1 exactly for the fingerprints recorded by an
\* earlier remember call of the run, and 0 for every other fingerprint.
C4_SetSemantics ==
  InLoop =>
    /\ \A fp \in RecordedFps : Returns(already_seen(seen, capacity, fp), 1)
    /\ \A fp \in (NeverRecorded \cup {h}) \ RecordedFps :
          Returns(already_seen(seen, capacity, fp), 0)

IsPowerOfTwo(c) == \E k \in 0..16 : c = 2 ^ k

\* C10: after the k-th ticket is printed the table holds exactly the
\* fingerprints of the k tickets printed so far, one entry per ticket, in the
\* slots 0..k-1 they were written to and never changed since; every write
\* landed below the capacity, which is a power of two; a rejected candidate
\* adds nothing.
C10_TableHoldsEmitted ==
  InLoop =>
    /\ Len(out) = n - 1
    /\ Len(out) <= capacity
    /\ \A k \in 1..Len(out) :
          /\ out[k].label = k
          /\ seen[k] = Fingerprint(out[k])
    /\ \A k \in (Len(out) + 1)..Len(seen) : seen[k] = Zero64
    /\ Len(seen) = capacity
    /\ (capacity = 0 /\ out = <<>>) \/ IsPowerOfTwo(capacity)

\* a candidate was rejected and the table kept its entries
C10_Witness ==
  /\ pc = "draw"
  /\ Len(out) >= 3
  /\ h \in RecordedFps
  /\ \A k \in 1..Len(out) : seen[k] = Fingerprint(out[k])


\* C(m, k), the number of k-element subsets of an m-element set
RECURSIVE Binomial(_, _)
Binomial(m, k) == IF k = 0 THEN 1 ELSE (Binomial(m - 1, k - 1) * m) \div k

\* the number of distinct tickets: C(49, 6) main sets, 43 bonus numbers each
DistinctTickets ==
  Binomial(POOL_SIZE, MAIN_NUMBERS) * (POOL_SIZE - MAIN_NUMBERS)

Parsed == pc \notin {"seed_rng", "parse"}

\* C3: for a requested count N >= 1 that does not exceed the number of
\* distinct tickets, the run terminates after printing exactly N tickets,
\* labelled 1..N in order.
C3_TerminatesWithNTickets ==
  (Parsed /\ want <= DistinctTickets)
    ~> (/\ exited
        /\ Len(out) = want
        /\ \A k \in 1..Len(out) : out[k].label = k)

\* C6: when the requested count is larger than the number of distinct
\* tickets, the run terminates with an explicit exhaustion error.
C6_ExhaustionReported ==
  (Parsed /\ want > DistinctTickets) ~> (exited /\ rc # 0)

(***************************************************************************)
(* What the first argument means, stated without strtol                    *)
(***************************************************************************)
\* s is white space, an optional sign, then one or more digits and no more
IsNumeral(s) ==
  \E w \in 0..Len(s) : \E g \in 0..1 :
     /\ w + g < Len(s)
     /\ \A i \in 1..w : IsSpace(s[i])
     /\ g = 1 => s[w + 1] \in {"+", "-"}
     /\ \A i \in (w + g + 1)..Len(s) : IsDigit(s[i])

\* the index of the first digit of the numeral s
FirstDigit(s) == CHOOSE p \in 1..Len(s) : \A i \in 1..Len(s) : IsDigit(s[i]) <=> i >= p

IsNegative(s) == \E i \in 1..Len(s) : s[i] = "-"

\* the digits of the numeral s from its first non-zero digit on
Significant(s) ==
  LET nz == { i \in FirstDigit(s)..Len(s) : s[i] # "0" }
  IN  IF nz = {} THEN <<>>
      ELSE SubSeq(s, CHOOSE i \in nz : \A j \in nz : i <= j, Len(s))

\* the digits of LONG_MAX
LongMaxDigits == <<"2", "1", "4", "7", "4", "8", "3", "6", "4", "7">>

\* the magnitude of the numeral s is above LONG_MAX
AboveLongMax(s) ==
  LET d == Significant(s)
  IN  \/ Len(d) > Len(LongMaxDigits)
      \/ /\ Len(d) = Len(LongMaxDigits)
         /\ \E k \in 1..Len(d) :
               /\ \A i \in 1..(k - 1) : d[i] = LongMaxDigits[i]
               /\ DigitVal(d[k]) > DigitVal(LongMaxDigits[k])

RECURSIVE PlaceValue(_, _)
\* the sum of digit * 10^place over the last k digits of d
PlaceValue(d, k) ==
  IF k = 0 THEN 0
  ELSE DigitVal(d[Len(d) - k + 1]) * (10 ^ (k - 1)) + PlaceValue(d, k - 1)

\* the magnitude of the numeral s, when it is not above LONG_MAX
Magnitude(s) == PlaceValue(Significant(s), Len(Significant(s)))

\* the argument is a decimal integer >= 1
IsPositiveCount(ac, s) ==
  ac >= 2 /\ IsNumeral(s) /\ ~IsNegative(s) /\ Significant(s) # <<>>

\* C7: the number of tickets is the argument's value exactly when the whole
\* first argument is a decimal integer >= 1, and the default 5 in every other
\* case; a run on the default then prints 5 tickets and returns 0.
C7_WantIsArgumentValue ==
  Parsed =>
    IF IsPositiveCount(argc, argv1)
      THEN ~AboveLongMax(argv1) /\ want = Magnitude(argv1)
      ELSE /\ want = DEFAULT_WANT
           /\ pc = "done" => exited /\ rc = 0 /\ Len(out) = DEFAULT_WANT

(***************************************************************************)
(* The samplers on their own: draw_one and generate_ticket, call after     *)
(* call, from a range of seeds                                             *)
(***************************************************************************)
NumSeeds == 10

MaxDraws == 3

\* time(NULL) ^ (uintptr_t)&entropy: 0x7ffc00000000 + k
SamplerSeeds == { Add64(<<0, 0, 0, 0, 252, 127, 0, 0>>, U64(k)) : k \in 0..(NumSeeds - 1) }

\* srand((unsigned int)seed): the low 32 bits
srand(seed) == <<seed[1], seed[2], seed[3], seed[4], 0, 0, 0, 0>>

InitSampler ==
  \E e \in SamplerSeeds :
     /\ Blank
     /\ argc = 1
     /\ argv1 = <<>>
     /\ entropy = e
     /\ pc = "sampler"

\* seed_rng(); srand(time(NULL))
SamplerSeed ==
  /\ pc = "sampler"
  /\ state' = seed_rng(entropy)
  /\ rand_next' = srand(entropy)
  /\ pc' = "seeded"
  /\ UNCHANGED << argc, argv1, entropy, want, n, pool, ticket, h, seen,
                  capacity, out, exited, rc, engines, inserted, ticket2, h2 >>

\* draw_one(ticket)
SampleDrawOne ==
  /\ pc \in {"seeded", "draw_one", "generate_ticket"}
  /\ n < MaxDraws
  /\ \E d \in {draw_one(state)} :
        /\ state' = d.state
        /\ pool' = d.pool
        /\ ticket' = d.ticket
  /\ n' = n + 1
  /\ pc' = "draw_one"
  /\ UNCHANGED << argc, argv1, entropy, want, h, seen, capacity, out, exited,
                  rc, engines, inserted, ticket2, h2, rand_next >>

\* generate_ticket()
SampleGenerateTicket ==
  /\ pc \in {"seeded", "draw_one", "generate_ticket"}
  /\ n < MaxDraws
  /\ \E d \in {generate_ticket(rand_next)} :
        /\ rand_next' = d.next
        /\ pool' = d.numbers
        /\ ticket' = d.ticket
  /\ n' = n + 1
  /\ pc' = "generate_ticket"
  /\ UNCHANGED << argc, argv1, entropy, state, want, h, seen, capacity, out,
                  exited, rc, engines, inserted, ticket2, h2 >>

NextSampler ==
  \/ SamplerSeed
  \/ SampleDrawOne
  \/ SampleGenerateTicket

SpecSampler == InitSampler /\ [][NextSampler]_vars

\* the first k entries of t are pairwise distinct, in 1..49, strictly ascending
AscendingNumbers(t, k) ==
  /\ \A i \in 1..k : t[i] \in 1..POOL_SIZE
  /\ \A i \in 1..(k - 1) : t[i] < t[i + 1]
  /\ \A i \in 1..k : \A j \in 1..k : i # j => t[i] # t[j]

\* C2: a ticket of draw_one has six main numbers that are pairwise distinct,
\* in 1..49 and strictly ascending, which are the first six entries of the
\* shuffled pool, and a bonus in 1..49 that differs from all six and is the
\* seventh entry of the shuffled pool, still in the seventh slot; a ticket of
\* generate_ticket has six numbers that are pairwise distinct, in 1..49 and
\* strictly ascending.
C2_TicketWellFormed ==
  /\ pc = "draw_one" =>
       /\ Len(ticket) = TICKET_SIZE
       /\ AscendingNumbers(ticket, MAIN_NUMBERS)
       /\ { ticket[i] : i \in 1..MAIN_NUMBERS } = { pool[i] : i \in 1..MAIN_NUMBERS }
       /\ ticket[TICKET_SIZE] = pool[TICKET_SIZE]
       /\ ticket[TICKET_SIZE] \in 1..POOL_SIZE
       /\ \A i \in 1..MAIN_NUMBERS : ticket[i] # ticket[TICKET_SIZE]
       /\ { pool[i] : i \in 1..POOL_SIZE } = 1..POOL_SIZE
  /\ pc = "generate_ticket" =>
       /\ Len(ticket) = NUMBERS_PER_TICKET
       /\ AscendingNumbers(ticket, NUMBERS_PER_TICKET)
       /\ { ticket[i] : i \in 1..NUMBERS_PER_TICKET }
            = { pool[i] : i \in 1..NUMBERS_PER_TICKET }

\* draw_one returned a ticket whose bonus is smaller than its largest main
\* number, right after generate_ticket returned one
C2_Witness ==
  /\ pc = "draw_one"
  /\ n = MaxDraws
  /\ ticket[TICKET_SIZE] < ticket[MAIN_NUMBERS]
  /\ rand_next # srand(entropy)

(***************************************************************************)
(* The Duplicate Guard on its own: remember and already_seen, driven the   *)
(* way main drives them, with chosen fingerprints                          *)
(***************************************************************************)
MaxInserts == 3

\* 0, 1, 2, 5, 1025
GuardFps == { Zero64, U64(1), U64(2), U64(5), U64(1025) }

InitGuard ==
  /\ Blank
  /\ argc = 1
  /\ argv1 = <<>>
  /\ entropy = Zero64
  /\ pc = "guard"

\* h = the candidate's fingerprint
GuardCandidate ==
  /\ pc = "guard"
  /\ n < MaxInserts
  /\ \E fp \in GuardFps : h' = fp
  /\ pc' = "guard_check"
  /\ UNCHANGED << argc, argv1, entropy, state, want, n, pool, ticket, seen,
                  capacity, out, exited, rc, engines, inserted, ticket2, h2,
                  rand_next >>

\* already_seen(h) returned 1: the candidate is dropped
GuardReject ==
  /\ pc = "guard_check"
  /\ \E r \in {already_seen(seen, capacity, h)} : r.done /\ r.ret = 1
  /\ pc' = "guard"
  /\ UNCHANGED << argc, argv1, entropy, state, want, n, pool, ticket, h, seen,
                  capacity, out, exited, rc, engines, inserted, ticket2, h2,
                  rand_next >>

\* already_seen(h) returned 0: remember(h, n), n counting the calls so far
GuardRemember ==
  /\ pc = "guard_check"
  /\ \E r \in {already_seen(seen, capacity, h)} : r.done /\ r.ret = 0
  /\ \E t \in {remember(seen, capacity, h, n)} :
        /\ seen' = t.seen
        /\ capacity' = t.capacity
  /\ inserted' = Append(inserted, h)
  /\ n' = n + 1
  /\ pc' = "guard"
  /\ UNCHANGED << argc, argv1, entropy, state, want, pool, ticket, h, out,
                  exited, rc, engines, ticket2, h2, rand_next >>

NextGuard ==
  \/ GuardCandidate
  \/ GuardReject
  \/ GuardRemember

SpecGuard == InitGuard /\ [][NextGuard]_vars

InsertedFps == { inserted[k] : k \in 1..Len(inserted) }

\* C5: the fingerprint 0 is told apart from an empty slot: already_seen(0)
\* returns 1 once 0 has been given to remember, and 0 before that.
C5_ZeroHandled ==
  pc = "guard" =>
    Returns(already_seen(seen, capacity, Zero64),
            IF Zero64 \in InsertedFps THEN 1 ELSE 0)

(***************************************************************************)
(* The engine on its own: two processes seeded alike, each calling         *)
(* xorshift128plus on its own static state                                 *)
(***************************************************************************)
MaxCalls == 5

\* 0, 1, 0x7ffc0039defe, 2^64 - 1
EngineSeeds ==
  { Zero64, U64(1), <<254, 222, 57, 0, 252, 127, 0, 0>>,
    <<255, 255, 255, 255, 255, 255, 255, 255>> }

InitEngine ==
  \E e \in EngineSeeds :
     /\ Blank
     /\ argc = 1
     /\ argv1 = <<>>
     /\ entropy = e
     /\ pc = "engine"

\* seed_rng() in both processes
EngineSeed ==
  /\ pc = "engine"
  /\ engines' = << [state |-> seed_rng(entropy), values |-> <<>>],
                   [state |-> seed_rng(entropy), values |-> <<>>] >>
  /\ pc' = "engine_seeded"
  /\ UNCHANGED << argc, argv1, entropy, state, want, n, pool, ticket, h, seen,
                  capacity, out, exited, rc, inserted, ticket2, h2, rand_next >>

\* a call of xorshift128plus() in process r
EngineCall(r) ==
  /\ pc = "engine_seeded"
  /\ Len(engines[r].values) < MaxCalls
  /\ \E x \in {xorshift128plus(engines[r].state)} :
        engines' = [engines EXCEPT ![r] = [state  |-> x.state,
                                           values |-> Append(@.values, x.value)]]
  /\ UNCHANGED << argc, argv1, entropy, state, want, n, pool, ticket, h, seen,
                  capacity, out, pc, exited, rc, inserted, ticket2, h2,
                  rand_next >>

NextEngine ==
  \/ EngineSeed
  \/ \E r \in 1..2 : EngineCall(r)

SpecEngine == InitEngine /\ [][NextEngine]_vars

Min(a, b) == IF a <= b THEN a ELSE b

HashTickets ==
  { <<4, 5, 10, 11, 33, 42, 28>>,
    <<8, 15, 17, 33, 39, 44, 4>>,
    <<1, 2, 3, 4, 5, 6, 7>>,
    <<44, 45, 46, 47, 48, 49, 43>> }

\* t is what draw_one can return
IsTicket(t) ==
  /\ AscendingNumbers(t, MAIN_NUMBERS)
  /\ t[TICKET_SIZE] \in 1..POOL_SIZE
  /\ \A i \in 1..MAIN_NUMBERS : t[i] # t[TICKET_SIZE]

\* the tickets that differ from t at position p alone
OneOff(t, p) ==
  { u \in { [t EXCEPT ![p] = v] : v \in 1..POOL_SIZE } : IsTicket(u) /\ u # t }

\* the two tickets are given; everything else is as before main runs
InitHash ==
  \E t \in HashTickets : \E p \in 1..TICKET_SIZE : \E u \in OneOff(t, p) :
     /\ ticket = t
     /\ ticket2 = u
     /\ argc = 1
     /\ argv1 = <<>>
     /\ entropy = Zero64
     /\ pc = "hash"
     /\ state = <<Zero64, Zero64>>
     /\ want = 0
     /\ n = 0
     /\ pool = [k \in 1..POOL_SIZE |-> 0]
     /\ h = Zero64
     /\ h2 = Zero64
     /\ seen = <<>>
     /\ capacity = 0
     /\ out = <<>>
     /\ exited = FALSE
     /\ rc = 0
     /\ engines = <<>>
     /\ inserted = <<>>
     /\ rand_next = Zero64

\* for ticket: h = hash_ticket(ticket)
HashFirst ==
  /\ pc = "hash"
  /\ h' = hash_ticket(ticket)
  /\ pc' = "hash_second"
  /\ UNCHANGED << argc, argv1, entropy, state, want, n, pool, ticket, seen,
                  capacity, out, exited, rc, engines, inserted, ticket2, h2,
                  rand_next >>

\* for ticket2: h2 = hash_ticket(ticket2)
HashSecond ==
  /\ pc = "hash_second"
  /\ h2' = hash_ticket(ticket2)
  /\ pc' = "hashed"
  /\ UNCHANGED << argc, argv1, entropy, state, want, n, pool, ticket, h, seen,
                  capacity, out, exited, rc, engines, inserted, ticket2,
                  rand_next >>

NextHash ==
  \/ HashFirst
  \/ HashSecond

SpecHash == InitHash /\ [][NextHash]_vars

\* the positions where the two tickets differ
DifferAt == { i \in 1..TICKET_SIZE : ticket[i] # ticket2[i] }

\* C9: two tickets that differ in exactly one of the seven positions have
\* different fingerprints, and the fingerprint of a ticket is the same
\* whenever it is computed.
C9_SensitiveToEachPosition ==
  pc = "hashed" =>
    /\ Cardinality(DifferAt) = 1 => h # h2
    /\ h = hash_ticket(ticket)
    /\ h2 = hash_ticket(ticket2)

\* two tickets that differ in the bonus alone have been hashed
C9_Witness ==
  /\ pc = "hashed"
  /\ DifferAt = {TICKET_SIZE}
  /\ h # Zero64
  /\ h2 # Zero64

=============================================================================
